---- MODULE Spec2Model ----
(***************************************************************************)
(* Model of the gaming POS server of src/app.py: the shared in-memory      *)
(* state of POSHandler (users, games, sessions), the payment and invoice   *)
(* histories on disk, and the request handlers, each run by its own        *)
(* handler thread of the ThreadingHTTPServer.                              *)
(*                                                                         *)
(* Money is counted in thousandths of a rupee (100000 is Rs 100.00), so    *)
(* that the 10% loyalty of an amount given in paise is exact and round(,2) *)
(* is a real rounding. Durations are counted in half hours (3 is 1.5 h),   *)
(* the clock in minutes. Session ids (uuid4 in the code) are the integers  *)
(* 1, 2, ... in order of creation; 0 stands for a missing id.              *)
(***************************************************************************)
EXTENDS Integers, Sequences, FiniteSets, TLC

\* ------------------------------------------------------------------ bounds
\* Number of session ids the id generator hands out.
MaxSid == 2
\* Last minute the clock reaches.
MaxTime == 80
\* Number of file operations that fail in one run.
MaxFaults == 1

\* Handler threads serving requests concurrently.
Threads == {1, 2}
\* Minutes the clock advances by in one step.
TickSteps == {80}

\* Request inputs.
ControllerCounts == {0, 3}
FoodCosts == {20000, -100000}

\* ------------------------------------------------------- program constants
StationLetters == {"A", "B", "C", "D", "E", "F", "G"}
DefaultPricePerHour == 100000

\* The catalogue POSHandler.games (data/games.json): never written by a handler.
Games ==
  << [name |-> "Game A", price_per_hour |-> 100000, requires_controllers |-> TRUE],
     [name |-> "Game B", price_per_hour |-> 120000, requires_controllers |-> FALSE] >>

\* The users database as load_users() may find it on disk at start-up.
InitialUsers == { [m \in {"m1"} |-> 50000] }

\* ------------------------------------------------------------ pure helpers
\* str.strip() on the request strings used here.
Strip(s) == IF s = " " THEN "" ELSE s

\* str.upper() on the request strings used here.
Upper(s) == IF s = "b" THEN "B" ELSE s

NoGame == [found |-> FALSE, name |-> "", price_per_hour |-> 0, requires_controllers |-> TRUE]

\* next((g for g in games if g['name'] == name), None): the first match.
FindGame(name) ==
  LET idx == {i \in 1..Len(Games) : Games[i].name = name}
  IN IF idx = {} THEN NoGame
     ELSE LET i == CHOOSE k \in idx : \A j \in idx : k <= j
          IN [found |-> TRUE, name |-> Games[i].name,
              price_per_hour |-> Games[i].price_per_hour,
              requires_controllers |-> Games[i].requires_controllers]

\* The field test of start_session: mobile and game non-empty, station A..G.
FieldsValid(r) ==
  /\ Strip(r.mobile) # ""
  /\ Upper(Strip(r.station)) \in StationLetters
  /\ Strip(r.game) # ""

StationOccupiedRaw(ss, raw) == \E s \in DOMAIN ss : ss[s].station = Strip(raw)

StationOccupiedAny(ss, raw) == DOMAIN ss # {}

\* The availability scan of start_session: some session holds the station.
StationOccupied(ss, raw) == \E s \in DOMAIN ss : ss[s].station = Upper(Strip(raw))

EffectiveControllersKept(g, c) == c

\* if not game_obj.get('requires_controllers', True): controllers = 0
EffectiveControllers(g, c) == IF ~g.requires_controllers THEN 0 ELSE c

RECURSIVE OccupancyFrom(_, _, _)
OccupancyFrom(ss, sid, view) ==
  IF sid > MaxSid THEN view
  ELSE OccupancyFrom(ss, sid + 1,
         IF sid \in DOMAIN ss
         THEN [view EXCEPT ![ss[sid].station] = [occupied |-> TRUE, session_id |-> sid]]
         ELSE view)

\* The body of GET /api/stations: every letter free, then each session in the
\* order of the sessions dict (its insertion order) marks its station.
Occupancy(ss) ==
  OccupancyFrom(ss, 1, [st \in StationLetters |-> [occupied |-> FALSE, session_id |-> 0]])

SessionsClear(ss, sid) == [s \in {} |-> ss[s]]

SessionsKeep(ss, sid) == ss

\* sessions.pop(session_id): the mapping without the key.
SessionsPop(ss, sid) == [s \in DOMAIN ss \ {sid} |-> ss[s]]

calculate_duration_hours_upto15(start_time, end_time) ==
  LET diff == end_time - start_time
      total_minutes == IF diff < 0 THEN 0 ELSE diff
      hours == total_minutes \div 60
      remainder == total_minutes - hours * 60
      extra == IF remainder > 15 THEN 0 ELSE 1
  IN 2 * hours + extra

calculate_duration_hours_total(start_time, end_time) ==
  LET diff == end_time - start_time
      total_minutes == IF diff < 0 THEN 0 ELSE diff
      hours == total_minutes \div 60
      remainder == total_minutes - hours * 60
      extra == IF total_minutes > 15 THEN 1 ELSE 0
  IN 2 * hours + extra

calculate_duration_hours_from15(start_time, end_time) ==
  LET diff == end_time - start_time
      total_minutes == IF diff < 0 THEN 0 ELSE diff
      hours == total_minutes \div 60
      remainder == total_minutes - hours * 60
      extra == IF remainder >= 15 THEN 1 ELSE 0
  IN 2 * hours + extra

\* _calculate_duration_hours, in half hours.
calculate_duration_hours(start_time, end_time) ==
  LET diff == end_time - start_time
      total_minutes == IF diff < 0 THEN 0 ELSE diff
      hours == total_minutes \div 60
      remainder == total_minutes - hours * 60
      extra == IF remainder > 15 THEN 1 ELSE 0
  IN 2 * hours + extra

Max2(a, b) == IF a >= b THEN a ELSE b
Min2(a, b) == IF a <= b THEN a ELSE b

BaseCostNoFloor(s, duration) ==
  LET game_obj == FindGame(s.game)
      game_price_per_hour == IF ~game_obj.found THEN DefaultPricePerHour
                             ELSE game_obj.price_per_hour
  IN IF game_obj.found /\ ~game_obj.requires_controllers
     THEN (duration * game_price_per_hour) \div 2
     ELSE (duration * game_price_per_hour * s.controllers) \div 2

\* The base cost of end_session for a session and a duration in half hours.
BaseCost(s, duration) ==
  LET game_obj == FindGame(s.game)
      game_price_per_hour == IF ~game_obj.found THEN DefaultPricePerHour
                             ELSE game_obj.price_per_hour
  IN IF game_obj.found /\ ~game_obj.requires_controllers
     THEN (duration * game_price_per_hour) \div 2
     ELSE (duration * game_price_per_hour * Max2(1, s.controllers)) \div 2

WalletUsedAlways(use_wallet, wallet_available, total) ==
  IF wallet_available > 0 THEN Min2(wallet_available, total) ELSE 0

WalletUsedUnclamped(use_wallet, wallet_available, total) ==
  IF use_wallet /\ wallet_available > 0 THEN total ELSE 0

\* wallet_used of end_session.
WalletUsed(use_wallet, wallet_available, total) ==
  IF use_wallet /\ wallet_available > 0 THEN Min2(wallet_available, total) ELSE 0

LoyaltyOnBase(base_cost, food_cost) == base_cost \div 10

\* loyalty_earned of end_session: 0.10 * total_due_before_wallet.
LoyaltyEarned(base_cost, food_cost) == (base_cost + food_cost) \div 10

\* round(x, 2): to the nearest paisa (10 thousandths), a tie to the even paisa.
Round2(x) ==
  LET q == x \div 10
      r == x - q * 10
  IN IF r < 5 THEN q * 10
     ELSE IF r > 5 THEN (q + 1) * 10
     ELSE IF q % 2 = 0 THEN q * 10 ELSE (q + 1) * 10

\* ------------------------------------------------------------------- state
VARIABLES
  sessions,   \* POSHandler.sessions: session id -> session record
  sessions_file, \* the mapping in sessions.json
  users,      \* POSHandler.users: mobile -> wallet
  payments,   \* the list in payments.json
  records,    \* the list in invoice_records.json
  now,        \* the wall clock, in minutes
  nextSid,    \* the next id uuid4 hands out
  pc,         \* per thread: where its handler stands
  req,        \* per thread: the request it serves
  resp,       \* per thread: the response sent, or the exception that ended it
  sess,       \* per thread: the session created or popped
  bill,       \* per thread: the figures end_session has computed
  buf,        \* per thread: the history list it has loaded
  faults,     \* file operations that have failed so far
  pre         \* the shared state when the request in progress was admitted
              \* (kept by the one-request-at-a-time specification only)

vars == <<sessions, sessions_file, users, payments, records, now, nextSid,
          pc, req, resp, sess, bill, buf, faults, pre>>

shared == <<sessions, sessions_file, users, payments, records>>

NoReq == [kind |-> "none", json_ok |-> TRUE, mobile |-> "", station |-> "", game |-> "",
          controllers |-> 0, session_id |-> 0, food_cost |-> 0, use_wallet |-> FALSE]

NoSess == [session_id |-> 0, mobile |-> "", station |-> "", game |-> "",
           controllers |-> 0, start_time |-> 0]

NoBill == [end_time |-> 0, duration_hours |-> 0, base_cost |-> 0, wallet_available |-> 0,
           wallet_used |-> 0, remaining_due |-> 0, loyalty_earned |-> 0,
           new_wallet |-> 0]

\* The POST /api/start_session bodies: a body that is no JSON object, the
\* well-formed bodies, and bodies with a blank mobile, an unknown station
\* letter or an empty game name.
StartRequests ==
  {[NoReq EXCEPT !.kind = "start", !.json_ok = FALSE]} \cup
  {[NoReq EXCEPT !.kind = "start", !.mobile = m, !.station = st, !.game = g,
                 !.controllers = c] :
     m \in {"m1", "m2"}, st \in {"A", "b"}, g \in {"Game A", "Game B", "Nope"},
     c \in ControllerCounts} \cup
  {[NoReq EXCEPT !.kind = "start", !.mobile = m, !.station = st, !.game = g,
                 !.controllers = 0] :
     <<m, st, g>> \in {<<" ", "A", "Game A">>, <<"m1", "H", "Game A">>,
                       <<"m1", "A", "">>}}

\* The POST /api/end_session bodies: no JSON object, no session id, or a
\* session id with a food cost and the wallet switch.
EndRequests ==
  {[NoReq EXCEPT !.kind = "end", !.json_ok = FALSE],
   [NoReq EXCEPT !.kind = "end", !.session_id = 0, !.use_wallet = TRUE]} \cup
  {[NoReq EXCEPT !.kind = "end", !.session_id = i, !.food_cost = f, !.use_wallet = u] :
     i \in 1..MaxSid, f \in FoodCosts, u \in BOOLEAN}

\* The mobiles of the GET /api/users/<mobile> requests.
UserMobiles == {"m1", "m2", " "}

RaceUserMobiles == {"m2"}

\* The bodies two racing clients send: one new customer, two stations.
RaceStartRequests ==
  {[NoReq EXCEPT !.kind = "start", !.mobile = "m2", !.station = st, !.game = "Game A",
                 !.controllers = 3] : st \in {"A", "b"}}

RaceEndRequests ==
  {[NoReq EXCEPT !.kind = "end", !.session_id = i, !.food_cost = 20000,
                 !.use_wallet = u] : i \in 1..MaxSid, u \in BOOLEAN}

Snapshot == [sessions |-> sessions, users |-> users,
             payments |-> payments, records |-> records]

Init ==
  /\ sessions = [s \in {} |-> NoSess]
  /\ sessions_file = sessions
  /\ users \in InitialUsers
  /\ payments = << >>
  /\ records = << >>
  /\ now = 0
  /\ nextSid = 1
  /\ pc = [t \in Threads |-> "idle"]
  /\ req = [t \in Threads |-> NoReq]
  /\ resp = [t \in Threads |-> "none"]
  /\ sess = [t \in Threads |-> NoSess]
  /\ bill = [t \in Threads |-> NoBill]
  /\ buf = [t \in Threads |-> << >>]
  /\ faults = 0
  /\ pre = [sessions |-> sessions, users |-> users, payments |-> << >>, records |-> << >>]

\* The handler of thread t ends: the response is sent, or the exception escapes.
Finish(t, r) ==
  /\ pc' = [pc EXCEPT ![t] = "done"]
  /\ resp' = [resp EXCEPT ![t] = r]

Goto(t, l) ==
  /\ pc' = [pc EXCEPT ![t] = l]
  /\ UNCHANGED resp

AfterSaveUndone(before, after, fails) == IF fails THEN before ELSE after

\* try: save_sessions(...) except Exception: pass -- the mapping in memory
\* after the attempt to write it, given the mapping before the change.
AfterSave(before, after, fails) == after

\* The outcomes of a file operation: it works, or fails while failures remain.
IoFails == IF faults < MaxFaults THEN {FALSE, TRUE} ELSE {FALSE}

Fault(fails) == faults' = IF fails THEN faults + 1 ELSE faults

\* A request is served by the first thread that is free.
FirstFree(t) == pc[t] = "idle" /\ \A u \in Threads : u < t => pc[u] # "idle"

StartPcs == {"s_create", "s_scan", "s_insert"}

\* ------------------------------------------------- GET /api/users/<mobile>
\* Lines 283-288: the mobile is stripped and the user looked up; a user found
\* is sent back.
GetUserRequest(t, mobiles) ==
  /\ FirstFree(t)
  /\ \E m \in mobiles :
       /\ req' = [req EXCEPT ![t] = [NoReq EXCEPT !.kind = "user", !.mobile = m]]
       /\ IF Strip(m) = "" THEN Finish(t, "400 Mobile number required")
          ELSE IF Strip(m) \in DOMAIN users THEN Finish(t, "200")
          ELSE Goto(t, "g_create")
  /\ UNCHANGED <<shared, now, nextSid, sess, bill, buf, faults>>

\* Lines 289-293: the user seen absent is stored with wallet 0, the users file
\* written (a failed write ends the handler with the exception) and the user
\* sent back.
GetUserCreate(t) ==
  /\ pc[t] = "g_create"
  /\ users' = [m \in DOMAIN users \cup {Strip(req[t].mobile)} |->
                 IF m = Strip(req[t].mobile) THEN 0 ELSE users[m]]
  /\ \E fails \in IoFails :
       /\ Fault(fails)
       /\ IF fails THEN Finish(t, "OSError") ELSE Finish(t, "200")
  /\ UNCHANGED <<sessions, sessions_file, payments, records, now, nextSid, req, sess,
                 bill, buf, pre>>

\* -------------------------------------------------- POST /api/start_session
\* Lines 306-318: the body is read and checked, the user looked up. A request
\* is admitted while the id generator has an id left for every start in progress.
StartRequest(t, bodies) ==
  /\ FirstFree(t)
  /\ nextSid + Cardinality({u \in Threads : pc[u] \in StartPcs}) <= MaxSid
  /\ \E r \in bodies :
       /\ req' = [req EXCEPT ![t] = r]
       /\ IF ~r.json_ok THEN Finish(t, "400 Invalid JSON payload")
          ELSE IF ~FieldsValid(r) THEN Finish(t, "400 Missing or invalid fields")
          ELSE IF Strip(r.mobile) \in DOMAIN users THEN Goto(t, "s_scan")
          ELSE Goto(t, "s_create")
  /\ UNCHANGED <<shared, now, nextSid, sess, bill, buf, faults>>

\* Lines 319-322: the user seen absent is stored with wallet 0 and the users
\* file written; a failed write ends the handler with the exception.
StartCreateUser(t) ==
  /\ pc[t] = "s_create"
  /\ users' = [m \in DOMAIN users \cup {Strip(req[t].mobile)} |->
                 IF m = Strip(req[t].mobile) THEN 0 ELSE users[m]]
  /\ \E fails \in IoFails :
       /\ Fault(fails)
       /\ IF fails THEN Finish(t, "OSError") ELSE Goto(t, "s_scan")
  /\ UNCHANGED <<sessions, sessions_file, payments, records, now, nextSid, req, sess,
                 bill, buf, pre>>

\* Lines 323-334: the availability scan, then the catalogue lookup.
StartScan(t) ==
  /\ pc[t] = "s_scan"
  /\ IF StationOccupied(sessions, req[t].station)
     THEN Finish(t, "409 Station occupied")
     ELSE IF ~FindGame(Strip(req[t].game)).found
     THEN Finish(t, "400 Unknown game selected")
     ELSE Goto(t, "s_insert")
  /\ UNCHANGED <<shared, now, nextSid, req, sess, bill, buf, faults, pre>>

\* Lines 335-351: the session is stored under a fresh id and the response
\* sent; the sessions file is written after it, a failure (which leaves the
\* file as it was) being swallowed.
StartInsert(t) ==
  /\ pc[t] = "s_insert"
  /\ \E fails \in IoFails :
       LET s == [session_id |-> nextSid,
                 mobile |-> Strip(req[t].mobile),
                 station |-> Upper(Strip(req[t].station)),
                 game |-> Strip(req[t].game),
                 controllers |-> EffectiveControllers(FindGame(Strip(req[t].game)),
                                                      req[t].controllers),
                 start_time |-> now]
           stored == [i \in DOMAIN sessions \cup {nextSid} |->
                        IF i = nextSid THEN s ELSE sessions[i]]
       IN /\ Fault(fails)
          /\ sessions' = AfterSave(sessions, stored, fails)
          /\ sessions_file' = IF fails THEN sessions_file ELSE sessions'
          /\ sess' = [sess EXCEPT ![t] = s]
  /\ nextSid' = nextSid + 1
  /\ Finish(t, "200")
  /\ UNCHANGED <<users, payments, records, now, req, bill, buf, pre>>

\* ---------------------------------------------------- POST /api/end_session
EndRequestNoCheck(t, bodies) ==
  /\ FirstFree(t)
  /\ \E r \in bodies :
       /\ req' = [req EXCEPT ![t] = r]
       /\ IF ~r.json_ok THEN Finish(t, "400 Invalid JSON payload")
          ELSE IF r.session_id = 0
          THEN Finish(t, "400 Invalid session id")
          ELSE Goto(t, "e_pop")
  /\ UNCHANGED <<shared, now, nextSid, sess, bill, buf, faults>>

\* Lines 502-511: the body is read and the session id tested for membership.
EndRequest(t, bodies) ==
  /\ FirstFree(t)
  /\ \E r \in bodies :
       /\ req' = [req EXCEPT ![t] = r]
       /\ IF ~r.json_ok THEN Finish(t, "400 Invalid JSON payload")
          ELSE IF r.session_id = 0 \/ r.session_id \notin DOMAIN sessions
          THEN Finish(t, "400 Invalid session id")
          ELSE Goto(t, "e_pop")
  /\ UNCHANGED <<shared, now, nextSid, sess, bill, buf, faults>>

\* Lines 512-533: the session is popped (KeyError when it is no longer
\* there), the sessions file written (a failure, which leaves the file as it
\* was, swallowed), the clock read
\* and the duration and base cost computed.
EndPop(t) ==
  /\ pc[t] = "e_pop"
  /\ IF req[t].session_id \notin DOMAIN sessions
     THEN /\ Finish(t, "KeyError")
          /\ UNCHANGED <<sessions, sessions_file, sess, bill, faults>>
     ELSE LET s == sessions[req[t].session_id]
              d == calculate_duration_hours(s.start_time, now)
          IN /\ \E fails \in IoFails :
                  /\ Fault(fails)
                  /\ sessions' = AfterSave(sessions,
                                           SessionsPop(sessions, req[t].session_id), fails)
                  /\ sessions_file' = IF fails THEN sessions_file ELSE sessions'
             /\ sess' = [sess EXCEPT ![t] = s]
             /\ bill' = [bill EXCEPT ![t] = [NoBill EXCEPT !.end_time = now,
                                                           !.duration_hours = d,
                                                           !.base_cost = BaseCost(s, d)]]
             /\ Goto(t, "e_wallet")
  /\ UNCHANGED <<users, payments, records, now, nextSid, req, buf, pre>>

\* Lines 535-545: the wallet is read and the bill computed from it.
EndReadWallet(t) ==
  /\ pc[t] = "e_wallet"
  /\ LET wallet_available == IF sess[t].mobile \in DOMAIN users
                             THEN users[sess[t].mobile] ELSE 0
         total_due_before_wallet == bill[t].base_cost + req[t].food_cost
         wallet_used == WalletUsed(req[t].use_wallet, wallet_available,
                                   total_due_before_wallet)
         loyalty_earned == LoyaltyEarned(bill[t].base_cost, req[t].food_cost)
     IN bill' = [bill EXCEPT ![t] =
                   [@ EXCEPT !.wallet_available = wallet_available,
                             !.wallet_used = wallet_used,
                             !.remaining_due = total_due_before_wallet - wallet_used,
                             !.loyalty_earned = loyalty_earned,
                             !.new_wallet = Round2(wallet_available - wallet_used
                                                   + loyalty_earned)]]
  /\ Goto(t, "e_write")
  /\ UNCHANGED <<shared, now, nextSid, req, sess, buf, faults, pre>>

\* Lines 546-548: the rounded balance is stored and the users file written;
\* a failed write ends the handler with the exception.
EndWriteWallet(t) ==
  /\ pc[t] = "e_write"
  /\ users' = [m \in DOMAIN users \cup {sess[t].mobile} |->
                 IF m = sess[t].mobile THEN bill[t].new_wallet ELSE users[m]]
  /\ \E fails \in IoFails :
       /\ Fault(fails)
       /\ IF fails THEN Finish(t, "OSError") ELSE Goto(t, "e_payload")
  /\ UNCHANGED <<sessions, sessions_file, payments, records, now, nextSid, req, sess,
                 bill, buf, pre>>

\* Line 555, load_payments: the list on disk, or [] when it cannot be read.
EndLoadPayments(t) ==
  /\ pc[t] = "e_payload"
  /\ \E fails \in IoFails :
       /\ Fault(fails)
       /\ buf' = [buf EXCEPT ![t] = IF fails THEN << >> ELSE payments]
  /\ Goto(t, "e_paysave")
  /\ UNCHANGED <<shared, now, nextSid, req, sess, bill, pre>>

PaymentRecord(t) ==
  [mobile |-> sess[t].mobile, amount |-> bill[t].remaining_due, date |-> bill[t].end_time]

\* Lines 556-564: the payment is appended to the loaded list and the list
\* written back; a failed write is swallowed.
EndSavePayments(t) ==
  /\ pc[t] = "e_paysave"
  /\ \E fails \in IoFails :
       /\ Fault(fails)
       /\ payments' = IF fails THEN payments ELSE Append(buf[t], PaymentRecord(t))
  /\ Goto(t, "e_recload")
  /\ UNCHANGED <<sessions, sessions_file, users, records, now, nextSid, req, sess,
                 bill, buf, pre>>

\* Line 586, load_invoice_records: the list on disk, or [] when it cannot be read.
EndLoadRecords(t) ==
  /\ pc[t] = "e_recload"
  /\ \E fails \in IoFails :
       /\ Fault(fails)
       /\ buf' = [buf EXCEPT ![t] = IF fails THEN << >> ELSE records]
  /\ Goto(t, "e_recsave")
  /\ UNCHANGED <<shared, now, nextSid, req, sess, bill, pre>>

InvoiceRecord(t) ==
  [invoice_id |-> req[t].session_id, date |-> bill[t].end_time,
   mobile |-> sess[t].mobile, amount_due |-> bill[t].remaining_due,
   game |-> sess[t].game, station |-> sess[t].station,
   controllers |-> sess[t].controllers, base_cost |-> bill[t].base_cost,
   food_cost |-> req[t].food_cost, wallet_used |-> bill[t].wallet_used,
   loyalty_earned |-> bill[t].loyalty_earned,
   remaining_wallet |-> bill[t].new_wallet]

\* Lines 587-606: the invoice record is appended to the loaded list and the
\* list written back; a failed write is swallowed.
EndSaveRecords(t) ==
  /\ pc[t] = "e_recsave"
  /\ \E fails \in IoFails :
       /\ Fault(fails)
       /\ records' = IF fails THEN records ELSE Append(buf[t], InvoiceRecord(t))
  /\ Goto(t, "e_invoice")
  /\ UNCHANGED <<sessions, sessions_file, users, payments, now, nextSid, req, sess,
                 bill, buf, pre>>

\* Lines 608-615: the invoice is rendered (the HTML write of line 463 is not
\* guarded: its failure ends the handler with the exception) and the bill sent.
EndInvoice(t) ==
  /\ pc[t] = "e_invoice"
  /\ \E fails \in IoFails :
       /\ Fault(fails)
       /\ IF fails THEN Finish(t, "OSError") ELSE Finish(t, "200")
  /\ UNCHANGED <<shared, now, nextSid, req, sess, bill, buf, pre>>

\* ------------------------------------------------------------- environment
\* The wall clock advances.
Tick ==
  /\ \E d \in TickSteps :
       /\ now + d <= MaxTime
       /\ now' = now + d
  /\ UNCHANGED <<shared, nextSid, pc, req, resp, sess, bill, buf, faults, pre>>

\* The handler thread returns and waits for its next request.
Return(t) ==
  /\ pc[t] = "done"
  /\ pc' = [pc EXCEPT ![t] = "idle"]
  /\ req' = [req EXCEPT ![t] = NoReq]
  /\ resp' = [resp EXCEPT ![t] = "none"]
  /\ sess' = [sess EXCEPT ![t] = NoSess]
  /\ bill' = [bill EXCEPT ![t] = NoBill]
  /\ buf' = [buf EXCEPT ![t] = << >>]
  /\ UNCHANGED <<shared, now, nextSid, faults>>

\* ---------------------------------------------------------- specifications
\* The server as run_server starts it: one thread per request, no lock.
Start(t) == StartRequest(t, RaceStartRequests) /\ UNCHANGED pre

End(t) == EndRequest(t, RaceEndRequests) /\ UNCHANGED pre

Leave(t) == Return(t) /\ UNCHANGED pre

GetUser(t) == GetUserRequest(t, RaceUserMobiles) /\ UNCHANGED pre

Next ==
  \/ \E t \in Threads : GetUser(t)
  \/ \E t \in Threads : GetUserCreate(t)
  \/ \E t \in Threads : Start(t)
  \/ \E t \in Threads : StartCreateUser(t)
  \/ \E t \in Threads : StartScan(t)
  \/ \E t \in Threads : StartInsert(t)
  \/ \E t \in Threads : End(t)
  \/ \E t \in Threads : EndPop(t)
  \/ \E t \in Threads : EndReadWallet(t)
  \/ \E t \in Threads : EndWriteWallet(t)
  \/ \E t \in Threads : EndLoadPayments(t)
  \/ \E t \in Threads : EndSavePayments(t)
  \/ \E t \in Threads : EndLoadRecords(t)
  \/ \E t \in Threads : EndSaveRecords(t)
  \/ \E t \in Threads : EndInvoice(t)
  \/ \E t \in Threads : Leave(t)
  \/ Tick

Spec == Init /\ [][Next]_vars

AllIdle == \A t \in Threads : pc[t] = "idle"

\* The same handlers, each request run to completion before the next is
\* admitted; pre keeps the shared state the request found.
StartSeq(t) == AllIdle /\ StartRequest(t, StartRequests) /\ pre' = Snapshot

EndSeq(t) == AllIdle /\ EndRequest(t, EndRequests) /\ pre' = Snapshot

LeaveSeq(t) == Return(t) /\ pre' = Snapshot

GetUserSeq(t) == AllIdle /\ GetUserRequest(t, UserMobiles) /\ pre' = Snapshot

NextSeq ==
  \/ \E t \in Threads : GetUserSeq(t)
  \/ \E t \in Threads : GetUserCreate(t)
  \/ \E t \in Threads : StartSeq(t)
  \/ \E t \in Threads : StartCreateUser(t)
  \/ \E t \in Threads : StartScan(t)
  \/ \E t \in Threads : StartInsert(t)
  \/ \E t \in Threads : EndSeq(t)
  \/ \E t \in Threads : EndPop(t)
  \/ \E t \in Threads : EndReadWallet(t)
  \/ \E t \in Threads : EndWriteWallet(t)
  \/ \E t \in Threads : EndLoadPayments(t)
  \/ \E t \in Threads : EndSavePayments(t)
  \/ \E t \in Threads : EndLoadRecords(t)
  \/ \E t \in Threads : EndSaveRecords(t)
  \/ \E t \in Threads : EndInvoice(t)
  \/ \E t \in Threads : LeaveSeq(t)
  \/ Tick

SpecSeq == Init /\ [][NextSeq]_vars

\* The billing of one session: a session as the sessions file may hold it,
\* a wallet, a clock and an end_session body are drawn, and the handler runs
\* from its pop to the stored wallet.
BillGames == {"Game A", "Game B", "Gone"}
BillControllers == {0, 1, 3}
BillElapsed == {-5, 0, 15, 16, 59, 60, 75, 76, 80, 120}
BillWallets == {0, 50000, 400000}
BillFoodCosts == {0, 80, 20000, -100000}
BillStart == 120

InitBill ==
  /\ \E g \in BillGames, c \in BillControllers :
       sessions = [i \in {1} |-> [session_id |-> 1, mobile |-> "m1", station |-> "A",
                                  game |-> g, controllers |-> c,
                                  start_time |-> BillStart]]
  /\ sessions_file = sessions
  /\ \E w \in BillWallets : users = [m \in {"m1"} |-> w]
  /\ payments = << >>
  /\ records = << >>
  /\ \E e \in BillElapsed : now = BillStart + e
  /\ nextSid = 2
  /\ pc = [t \in Threads |-> IF t = 1 THEN "e_pop" ELSE "idle"]
  /\ \E f \in BillFoodCosts, u \in BOOLEAN :
       req = [t \in Threads |->
                IF t = 1 THEN [NoReq EXCEPT !.kind = "end", !.session_id = 1,
                                            !.food_cost = f, !.use_wallet = u]
                ELSE NoReq]
  /\ resp = [t \in Threads |-> "none"]
  /\ sess = [t \in Threads |-> NoSess]
  /\ bill = [t \in Threads |-> NoBill]
  /\ buf = [t \in Threads |-> << >>]
  /\ faults = 0
  /\ pre = [sessions |-> sessions, users |-> users, payments |-> << >>, records |-> << >>]

NextBill ==
  \/ \E t \in Threads : EndPop(t)
  \/ \E t \in Threads : EndReadWallet(t)
  \/ \E t \in Threads : EndWriteWallet(t)

SpecBill == InitBill /\ [][NextBill]_vars

\* The durations of two sessions: two sessions as the sessions file may hold
\* them, started DurElapsed minutes before (after, when negative) the clock's
\* present minute, each popped by its own end_session request.
DurElapsed == {-65, -5, 0, 15, 16, 59, 60, 75, 76, 119, 120, 135, 136, 180}

InitDur ==
  /\ \E e \in [1..2 -> DurElapsed] :
       sessions = [i \in 1..2 |-> [session_id |-> i, mobile |-> "m1",
                                  station |-> IF i = 1 THEN "A" ELSE "B",
                                  game |-> "Game A", controllers |-> 1,
                                  start_time |-> BillStart - e[i]]]
  /\ sessions_file = sessions
  /\ users = [m \in {"m1"} |-> 0]
  /\ payments = << >>
  /\ records = << >>
  /\ now = BillStart
  /\ nextSid = 3
  /\ pc = [t \in Threads |-> "e_pop"]
  /\ req = [t \in Threads |-> [NoReq EXCEPT !.kind = "end", !.session_id = t]]
  /\ resp = [t \in Threads |-> "none"]
  /\ sess = [t \in Threads |-> NoSess]
  /\ bill = [t \in Threads |-> NoBill]
  /\ buf = [t \in Threads |-> << >>]
  /\ faults = 0
  /\ pre = [sessions |-> sessions, users |-> users, payments |-> << >>, records |-> << >>]

NextDur == \E t \in Threads : EndPop(t)

SpecDur == InitDur /\ [][NextDur]_vars

\* ------------------------------------------------------------------ claims
\* The station a start_session body asks for, as the handler stores it.
StationOf(r) == Upper(Strip(r.station))

\* Some session of the mapping ss holds station st.
Holds(ss, st) == \E s \in DOMAIN ss : ss[s].station = st

\* Thread t has served a start_session body that passed the field test and
\* was not cut short by a failed write of the users file.
StartServed(t) ==
  /\ pc[t] = "done"
  /\ req[t].kind = "start"
  /\ req[t].json_ok
  /\ FieldsValid(req[t])
  /\ resp[t] # "OSError"

\* Thread t has computed the bill of an end_session request.
Billed(t) == req[t].kind = "end" /\ pc[t] \in {"e_write", "e_payload", "done"}
             /\ sess[t] # NoSess

\* C1 (SpecSeq): with requests served one at a time from an empty ledger, no
\* two active sessions have the same station.
Thm_C1 ==
  \A a \in DOMAIN sessions, b \in DOMAIN sessions :
    a # b => sessions[a].station # sessions[b].station

Wit_C1 == Cardinality(DOMAIN sessions) = 2

\* C2 (Spec): two start_session requests for the same free station served by
\* concurrent threads never leave the station with two active sessions.
CE_C2 ==
  \A st \in StationLetters :
    Cardinality({s \in DOMAIN sessions : sessions[s].station = st}) <= 1

\* C3 (SpecSeq): a start_session on an occupied station answers 409 and leaves
\* the ledger as it was; a start_session for a game of the catalogue on a free
\* station answers 200 and adds exactly one session, on that station.
Thm_C3 ==
  \A t \in Threads :
    StartServed(t) =>
      /\ Holds(pre.sessions, StationOf(req[t])) =>
           /\ resp[t] = "409 Station occupied"
           /\ sessions = pre.sessions
      /\ (~Holds(pre.sessions, StationOf(req[t])) /\ FindGame(Strip(req[t].game)).found) =>
           /\ resp[t] = "200"
           /\ sess[t].session_id \notin DOMAIN pre.sessions
           /\ DOMAIN sessions = DOMAIN pre.sessions \cup {sess[t].session_id}
           /\ sessions[sess[t].session_id].station = StationOf(req[t])
           /\ \A s \in DOMAIN pre.sessions : sessions[s] = pre.sessions[s]

Wit_C3 ==
  \E t \in Threads :
    /\ StartServed(t)
    /\ resp[t] = "409 Station occupied"
    /\ \E s \in DOMAIN sessions :
         /\ sessions[s].station = StationOf(req[t])
         /\ sessions[s].mobile = Strip(req[t].mobile)
         /\ sessions[s].game = Strip(req[t].game)

\* C4 (SpecSeq): an end_session for an id that was issued and is no longer
\* active answers 400 Invalid session id and leaves the wallets, the payment
\* history and the invoice history as they were; no id is billed twice.
Thm_C4 ==
  /\ \A t \in Threads :
       ( /\ pc[t] # "idle"
         /\ req[t].kind = "end"
         /\ req[t].json_ok
         /\ req[t].session_id \in 1..(nextSid - 1)
         /\ req[t].session_id \notin DOMAIN pre.sessions ) =>
           /\ pc[t] = "done"
           /\ resp[t] = "400 Invalid session id"
           /\ users = pre.users
           /\ payments = pre.payments
           /\ records = pre.records
  /\ \A i \in DOMAIN records, j \in DOMAIN records :
       i # j => records[i].invoice_id # records[j].invoice_id

Wit_C4 ==
  \E t \in Threads :
    /\ pc[t] = "done"
    /\ req[t].kind = "end"
    /\ resp[t] = "400 Invalid session id"
    /\ \E i \in DOMAIN records : records[i].invoice_id = req[t].session_id
    /\ \E i \in DOMAIN payments : TRUE

\* C5 (Spec): of two concurrent end_session requests for one id, the one that
\* loses answers the structured failure; none ends with an unhandled KeyError.
CE_C5 ==
  \A t \in Threads :
    (pc[t] = "done" /\ req[t].kind = "end") => resp[t] # "KeyError"

\* C6 (SpecSeq): after an end_session answered 200 the session is out of the
\* mapping and the occupancy view shows its station free; a start_session for
\* a game of the catalogue on a station that a billed session has left, and
\* that no session holds, answers 200 and occupies the station.
Thm_C6 ==
  /\ \A t \in Threads :
       (pc[t] = "done" /\ req[t].kind = "end" /\ resp[t] = "200") =>
         /\ req[t].session_id \notin DOMAIN sessions
         /\ ~Holds(sessions, sess[t].station)
         /\ Occupancy(sessions)[sess[t].station] = [occupied |-> FALSE, session_id |-> 0]
  /\ \A t \in Threads :
       ( /\ StartServed(t)
         /\ FindGame(Strip(req[t].game)).found
         /\ \E i \in DOMAIN pre.records : pre.records[i].station = StationOf(req[t])
         /\ ~Holds(pre.sessions, StationOf(req[t])) ) =>
           /\ resp[t] = "200"
           /\ sess[t].session_id \in DOMAIN sessions
           /\ sessions[sess[t].session_id].station = StationOf(req[t])
           /\ Occupancy(sessions)[StationOf(req[t])] =
                [occupied |-> TRUE, session_id |-> sess[t].session_id]

Wit_C6 ==
  \E t \in Threads :
    /\ StartServed(t)
    /\ resp[t] = "200"
    /\ \E i \in DOMAIN pre.records :
         /\ pre.records[i].station = StationOf(req[t])
         /\ pre.records[i].invoice_id < sess[t].session_id

\* C7 (Spec): the occupancy view shows a station occupied with session id s
\* exactly when s is an active session on that station, and free with no
\* session id otherwise.
CE_C7 ==
  \A st \in StationLetters :
    /\ \A s \in 1..MaxSid :
         (Occupancy(sessions)[st] = [occupied |-> TRUE, session_id |-> s])
           <=> (s \in DOMAIN sessions /\ sessions[s].station = st)
    /\ ~Holds(sessions, st) =>
         Occupancy(sessions)[st] = [occupied |-> FALSE, session_id |-> 0]

\* C8 (SpecSeq): every stored wallet is >= 0, whatever food cost and wallet
\* switch the completed end_session requests carried.
CE_C8 == \A m \in DOMAIN users : users[m] >= 0

\* C9 (SpecBill): for a base cost, food cost and wallet balance that are all
\* >= 0, and either wallet switch, the balance end_session computes is >= 0.
Thm_C9 ==
  \A t \in Threads :
    ( /\ Billed(t)
      /\ bill[t].base_cost >= 0
      /\ req[t].food_cost >= 0
      /\ bill[t].wallet_available >= 0 ) => bill[t].new_wallet >= 0

Wit_C9 ==
  \E t \in Threads :
    /\ Billed(t)
    /\ req[t].use_wallet
    /\ req[t].food_cost >= 0
    /\ bill[t].wallet_available > 0
    /\ bill[t].base_cost + req[t].food_cost > bill[t].wallet_available
    /\ bill[t].wallet_used = bill[t].wallet_available
    /\ bill[t].new_wallet >= 0

\* The example of the billing rules: 80 minutes of Game A with one controller
\* (base cost 150), food 20, wallet 50, wallet used.
Example(t) ==
  /\ Billed(t)
  /\ bill[t].base_cost = 150000
  /\ req[t].food_cost = 20000
  /\ bill[t].wallet_available = 50000
  /\ req[t].use_wallet

Thm_C11 ==
  \A t \in Threads :
    Billed(t) =>
      LET total == bill[t].base_cost + req[t].food_cost
          balance == bill[t].wallet_available
      IN /\ (req[t].use_wallet /\ balance > 0 /\ balance <= total) =>
              bill[t].wallet_used = balance
         /\ (req[t].use_wallet /\ balance > 0 /\ total <= balance) =>
              bill[t].wallet_used = total
         /\ (~req[t].use_wallet \/ balance <= 0) => bill[t].wallet_used = 0
         /\ bill[t].remaining_due = total - bill[t].wallet_used
         /\ (bill[t].base_cost >= 0 /\ req[t].food_cost >= 0 /\ balance >= 0) =>
              /\ 0 <= bill[t].wallet_used
              /\ bill[t].wallet_used <= balance
              /\ bill[t].remaining_due >= 0
              /\ bill[t].wallet_used + bill[t].remaining_due = total

Wit_C11 ==
  \E t \in Threads :
    /\ Billed(t)
    /\ req[t].use_wallet
    /\ bill[t].wallet_available = 400000
    /\ bill[t].base_cost = 180000
    /\ req[t].food_cost = 20000
    /\ bill[t].wallet_used = 200000
    /\ bill[t].remaining_due = 0

\* Thread t serves an end_session request and has popped its session.
Popped(t) == req[t].kind = "end" /\ sess[t] # NoSess

\* The minutes between the start of the session thread t popped and its end.
Elapsed(t) == bill[t].end_time - sess[t].start_time

\* C12 (SpecBill): for m elapsed minutes the billed duration is the whole hours
\* of max(0, m) plus half an hour exactly when more than 15 minutes remain;
\* 59 minutes give 0.5 h, 60 give 1.0 h, 75 give 1.0 h, 76 give 1.5 h, and an
\* end before the start gives 0, the handler going on to compute the bill.
Thm_C12 ==
  \A t \in Threads :
    Popped(t) =>
      LET m == IF Elapsed(t) < 0 THEN 0 ELSE Elapsed(t)
      IN /\ \E h \in 0..(m \div 60 + 1), r \in 0..59 :
              /\ m = 60 * h + r
              /\ bill[t].duration_hours = 2 * h + (IF r > 15 THEN 1 ELSE 0)
         /\ Elapsed(t) = 59 => bill[t].duration_hours = 1
         /\ Elapsed(t) = 60 => bill[t].duration_hours = 2
         /\ Elapsed(t) = 75 => bill[t].duration_hours = 2
         /\ Elapsed(t) = 76 => bill[t].duration_hours = 3
         /\ Elapsed(t) < 0 =>
              /\ bill[t].duration_hours = 0
              /\ bill[t].base_cost = 0
              /\ resp[t] # "KeyError"

Wit_C12 ==
  \E t \in Threads :
    /\ Popped(t)
    /\ Elapsed(t) = 75
    /\ bill[t].duration_hours = 2
    /\ bill[t].base_cost > 0

\* C13 (SpecDur): the billed duration does not decrease with the elapsed
\* minutes: of two sessions, the one with at most the elapsed minutes of the
\* other is billed at most the other's duration.
Thm_C13 ==
  \A t \in Threads, u \in Threads :
    (Popped(t) /\ Popped(u) /\ Elapsed(t) <= Elapsed(u)) =>
      bill[t].duration_hours <= bill[u].duration_hours

Wit_C13 ==
  \E t \in Threads, u \in Threads :
    /\ Popped(t) /\ Popped(u)
    /\ Elapsed(t) = 15 /\ Elapsed(u) = 16
    /\ bill[t].duration_hours = 0
    /\ bill[u].duration_hours = 1

\* C14 as stated (SpecDur): for d elapsed minutes and every integer k, the
\* duration billed for d is the duration billed for d + 60k, plus k hours.
CE_C14 ==
  \A t \in Threads, u \in Threads :
    (Popped(t) /\ Popped(u)) =>
      \A k \in -4..4 :
        Elapsed(u) = Elapsed(t) + 60 * k =>
          bill[t].duration_hours = bill[u].duration_hours + 2 * k

\* C14 as amended (SpecDur): for d >= 0 elapsed minutes and every integer k
\* with d + 60k >= 0, the duration billed for d + 60k is the duration billed
\* for d, plus k hours.
Thm_C14 ==
  \A t \in Threads, u \in Threads :
    (Popped(t) /\ Popped(u) /\ Elapsed(t) >= 0 /\ Elapsed(u) >= 0) =>
      \A k \in -4..4 :
        Elapsed(u) = Elapsed(t) + 60 * k =>
          bill[u].duration_hours = bill[t].duration_hours + 2 * k

Wit_C14 ==
  \E t \in Threads, u \in Threads :
    /\ Popped(t) /\ Popped(u)
    /\ Elapsed(t) = 16 /\ Elapsed(u) = 136
    /\ bill[t].duration_hours = 1
    /\ bill[u].duration_hours = 5

\* C15 (SpecBill): the base cost is duration times the game's hourly price
\* for a game of the catalogue that needs no controllers, whatever the
\* controller count of the session (Game B at 120 an hour); duration times
\* price times max(1, controllers) for a game of the catalogue that needs
\* controllers (Game A at 100 an hour); and duration times 100 times
\* max(1, controllers) for a game the catalogue no longer has. Durations are
\* in half hours, hence the halves.
Thm_C15 ==
  \A t \in Threads :
    Popped(t) =>
      LET d == bill[t].duration_hours
          c == IF sess[t].controllers >= 1 THEN sess[t].controllers ELSE 1
      IN /\ sess[t].game = "Game B" => 2 * bill[t].base_cost = d * 120000
         /\ sess[t].game = "Game A" => 2 * bill[t].base_cost = d * 100000 * c
         /\ sess[t].game = "Gone" => 2 * bill[t].base_cost = d * 100000 * c

Wit_C15 ==
  \E t \in Threads :
    /\ Popped(t)
    /\ sess[t].game = "Gone"
    /\ sess[t].controllers = 0
    /\ bill[t].duration_hours = 3
    /\ bill[t].base_cost = 150000

\* C16 (SpecSeq): every session start_session stores for a game that needs no
\* controllers (Game B) has controllers = 0, whatever count the body gave.
Thm_C16 ==
  /\ \A s \in DOMAIN sessions : sessions[s].game = "Game B" => sessions[s].controllers = 0
  /\ \A t \in Threads :
       (pc[t] = "done" /\ req[t].kind = "start" /\ resp[t] = "200"
          /\ Strip(req[t].game) = "Game B") =>
         /\ sess[t].controllers = 0
         /\ sess[t].session_id \in DOMAIN sessions
         /\ sessions[sess[t].session_id].controllers = 0

Wit_C16 ==
  \E t \in Threads :
    /\ pc[t] = "done" /\ req[t].kind = "start" /\ resp[t] = "200"
    /\ req[t].game = "Game B"
    /\ req[t].controllers = 3
    /\ sessions[sess[t].session_id].controllers = 0

\* C17 (SpecSeq): a start_session whose station is no station letter, whose
\* game is not in the catalogue or whose mobile is empty answers 400, whether
\* the station asked for is occupied or free; 409 is kept for bodies whose
\* fields are all valid. (Requests ended by a failed write of the users file
\* are left aside.)
CE_C17 ==
  \A t \in Threads :
    ( /\ pc[t] = "done"
      /\ req[t].kind = "start"
      /\ req[t].json_ok
      /\ resp[t] # "OSError"
      /\ \/ Strip(req[t].mobile) = ""
         \/ StationOf(req[t]) \notin StationLetters
         \/ ~FindGame(Strip(req[t].game)).found ) =>
        resp[t] \in {"400 Missing or invalid fields", "400 Unknown game selected"}

\* C18 (SpecSeq): once end_session has popped the session and computed the
\* bill, the request answers 200 with the bill whichever write after it fails
\* (users file, payments file, invoice records file, invoice rendering), and
\* the session stays removed and the wallet updated in memory.
CE_C18 ==
  \A t \in Threads :
    (pc[t] = "done" /\ Popped(t)) =>
      /\ resp[t] = "200"
      /\ req[t].session_id \notin DOMAIN sessions
      /\ users[sess[t].mobile] = bill[t].new_wallet

\* C19 (SpecSeq): the mapping in memory shows a session transition at once,
\* whether the write of the sessions file works or fails: after a start_session
\* answered 200 the new session is in the mapping and its station occupied,
\* and after end_session has popped a session it is out of the mapping and
\* its station free, also when the sessions file still holds the old mapping.
Thm_C19 ==
  /\ \A t \in Threads :
       (pc[t] = "done" /\ req[t].kind = "start" /\ resp[t] = "200") =>
         /\ sess[t].session_id \in DOMAIN sessions
         /\ sessions[sess[t].session_id] = sess[t]
         /\ Occupancy(sessions)[sess[t].station] =
              [occupied |-> TRUE, session_id |-> sess[t].session_id]
  /\ \A t \in Threads :
       Popped(t) =>
         /\ req[t].session_id \notin DOMAIN sessions
         /\ Occupancy(sessions)[sess[t].station] = [occupied |-> FALSE, session_id |-> 0]

Wit_C19 ==
  \E t \in Threads :
    /\ pc[t] = "done" /\ req[t].kind = "start" /\ resp[t] = "200"
    /\ faults = 1
    /\ sess[t].session_id \notin DOMAIN sessions_file
    /\ sess[t].session_id \in DOMAIN sessions
    /\ Occupancy(sessions)[sess[t].station].occupied

\* The list old is an initial part of the list new, entry for entry.
IsPrefix(old, new) ==
  /\ Len(old) <= Len(new)
  /\ \A i \in DOMAIN old : new[i] = old[i]

\* C20 (SpecSeq): the payment history and the invoice history only grow:
\* every record present when an end_session request arrives is still present
\* and unchanged, at its place, while and after the request is served, also
\* when the history file cannot be read.
CE_C20 ==
  \A t \in Threads :
    (pc[t] # "idle" /\ req[t].kind = "end") =>
      /\ IsPrefix(pre.payments, payments)
      /\ IsPrefix(pre.records, records)

\* C21 (Spec): under any interleaving of GET /api/users, start_session and
\* end_session requests for one mobile, the step that stores a user seen
\* absent (wallet 0) never changes the wallet of a user that is present by
\* then: no lookup-or-create replaces an existing record or resets a balance
\* another request has written.
CE_C21 ==
  [][ \A t \in Threads :
        (pc[t] \in {"s_create", "g_create"} /\ pc'[t] # pc[t]) =>
          \A m \in DOMAIN users : users'[m] = users[m] ]_vars

\* The wallet end_session stores for the bill of thread t when it finds the
\* balance w.
WalletAfter(w, t) ==
  LET total == bill[t].base_cost + req[t].food_cost
  IN Round2(w - WalletUsed(req[t].use_wallet, w, total)
              + LoyaltyEarned(bill[t].base_cost, req[t].food_cost))

\* Thread t has stored the wallet of the session it ended.
WalletWritten(t) ==
  Popped(t) /\ pc[t] \in {"e_payload", "e_paysave", "e_recload", "e_recsave",
                          "e_invoice", "done"}

\* C22 (Spec): when two threads have ended two different sessions of one new
\* customer (wallet 0 before both) and both have stored the wallet, the wallet
\* is what the two bills give when applied one after the other, in one of the
\* two orders: no debit and no loyalty credit is lost.
CE_C22 ==
  \A t \in Threads, u \in Threads :
    ( /\ t # u
      /\ WalletWritten(t) /\ WalletWritten(u)
      /\ sess[t].session_id # sess[u].session_id
      /\ sess[t].mobile = sess[u].mobile ) =>
        \/ users[sess[t].mobile] = WalletAfter(WalletAfter(0, t), u)
        \/ users[sess[t].mobile] = WalletAfter(WalletAfter(0, u), t)

\* C23 (SpecSeq): a rejected request changes no state: after a start_session
\* answered 400 or 409 the session mapping and the user store are as the
\* request found them, and after an end_session answered 400 the session
\* mapping, the user store and both histories are as the request found them.
CE_C23 ==
  \A t \in Threads :
    /\ ( /\ pc[t] = "done"
         /\ req[t].kind = "start"
         /\ resp[t] \in {"400 Invalid JSON payload", "400 Missing or invalid fields",
                         "400 Unknown game selected", "409 Station occupied"} ) =>
           /\ sessions = pre.sessions
           /\ users = pre.users
    /\ ( /\ pc[t] = "done"
         /\ req[t].kind = "end"
         /\ resp[t] \in {"400 Invalid JSON payload", "400 Invalid session id"} ) =>
           /\ sessions = pre.sessions
           /\ users = pre.users
           /\ payments = pre.payments
           /\ records = pre.records

\* C24 (SpecSeq): an end_session that ends session s takes s, and only s, out
\* of the session mapping and changes the wallet of the mobile of s only:
\* every other active session and every other user's wallet are as the
\* request found them. (No handler writes the catalogue, POSHandler.games.)
Thm_C24 ==
  \A t \in Threads :
    Popped(t) =>
      /\ req[t].session_id \in DOMAIN pre.sessions
      /\ pre.sessions[req[t].session_id] = sess[t]
      /\ DOMAIN sessions = DOMAIN pre.sessions \ {req[t].session_id}
      /\ \A s \in DOMAIN sessions : sessions[s] = pre.sessions[s]
      /\ DOMAIN users = DOMAIN pre.users \cup {sess[t].mobile}
      /\ \A m \in DOMAIN pre.users : m # sess[t].mobile => users[m] = pre.users[m]

Wit_C24 ==
  \E t \in Threads :
    /\ pc[t] = "done" /\ Popped(t) /\ resp[t] = "200"
    /\ users[sess[t].mobile] # pre.users[sess[t].mobile]
    /\ \E s \in DOMAIN sessions : sessions[s].mobile # sess[t].mobile
    /\ \E m \in DOMAIN users : m # sess[t].mobile /\ users[m] > 0

====
